---- MODULE Spec2Model ----
(***************************************************************************)
(* The MCP Streamlit client (src/mcp_client/client_streamlit.py): the      *)
(* agentic tool-calling loop MCPClient.process_query and the Connect /     *)
(* Disconnect / chat handlers of the page; and the tools of the server:    *)
(* the storage tools over data/briefings.json                              *)
(* (src/server/tools/storage_tools.py), rank_search_results                *)
(* (src/server/tools/research_tools.py) and extract_main_text              *)
(* (src/server/tools/content_tools.py).                                    *)
(*                                                                         *)
(* Spec is the loop on a connected client, SpecSession the page from its   *)
(* first load, SpecStore the storage tools called one after the other,     *)
(* with failing writes and crashes, SpecRank and SpecExtract one call of   *)
(* the pure tool on each of a set of inputs.                               *)
(*                                                                         *)
(* Strings are sequences of characters (one-character strings); a fixed    *)
(* literal of the source that is never taken apart is one element.         *)
(***************************************************************************)
EXTENDS Integers, Sequences, FiniteSets, TLC

\* ------------------------------------------------------------------ bounds
\* Rounds of a behaviour in which the Model Gateway may answer with any of
\* the canned responses; afterwards it keeps requesting one plain tool or
\* gives a final answer.
ScriptLen == 2
\* Chat prompts submitted in one behaviour.
MaxQueries == 2
\* MCPClient objects constructed in one behaviour.
MaxClients == 2

\* Storage tool calls made in one behaviour.
MaxStoreCalls == 3

\* Entries of a result list handed to rank_search_results.
MaxResults == 3

\* Lines of a text handed to extract_main_text.
MaxLines == 2

\* ------------------------------------------------------- program constants
MAX_TOOL_ROUNDS == 12

\* ----------------------------------------------------------------- strings
Whitespace == {" ", "\n"}

RECURSIVE LStrip(_)
LStrip(s) ==
    IF s = <<>> THEN <<>>
    ELSE IF Head(s) \in Whitespace THEN LStrip(Tail(s)) ELSE s

RECURSIVE RStrip(_)
RStrip(s) ==
    IF s = <<>> THEN <<>>
    ELSE IF s[Len(s)] \in Whitespace THEN RStrip(SubSeq(s, 1, Len(s) - 1)) ELSE s

\* str.strip()
Strip(s) == RStrip(LStrip(s))

\* sep.join(parts)
RECURSIVE Join(_, _)
Join(sep, parts) ==
    IF parts = <<>> THEN <<>>
    ELSE IF Len(parts) = 1 THEN parts[1]
    ELSE parts[1] \o sep \o Join(sep, Tail(parts))

\* str.lower(), on ASCII letters.
UpperCase ==
    << "A", "B", "C", "D", "E", "F", "G", "H", "I", "J", "K", "L", "M",
       "N", "O", "P", "Q", "R", "S", "T", "U", "V", "W", "X", "Y", "Z" >>
LowerCase ==
    << "a", "b", "c", "d", "e", "f", "g", "h", "i", "j", "k", "l", "m",
       "n", "o", "p", "q", "r", "s", "t", "u", "v", "w", "x", "y", "z" >>

IsUpper(c) == \E i \in 1..Len(UpperCase) : UpperCase[i] = c
IsLower(c) == \E i \in 1..Len(LowerCase) : LowerCase[i] = c

LowerChar(c) ==
    IF IsUpper(c)
    THEN LowerCase[CHOOSE i \in 1..Len(UpperCase) : UpperCase[i] = c]
    ELSE c

Lower(s) == [i \in 1..Len(s) |-> LowerChar(s[i])]

\* s[i:i+len(t)] == t
MatchesAt(s, t, i) ==
    /\ i + Len(t) - 1 <= Len(s)
    /\ \A j \in 1..Len(t) : s[i + j - 1] = t[j]

\* t in s
Contains(s, t) == \E i \in 1..(Len(s) + 1) : MatchesAt(s, t, i)

NL == <<"\n">>

\* The two literals of the forced stop.
STOP_AFTER_TEXT == <<"Stopped: too many tool-calling rounds (possible loop).">>
STOP_NO_TEXT == <<"Stopped: too many tool-calling rounds (possible infinite loop).">>

\* The system prompt, as the sequence of its parts.
BASE_SYSTEM_PROMPT == <<"BASE_SYSTEM_PROMPT">>
ALREADY_SAVED ==
    <<"\n", "\n", "The briefing has already been saved successfully. Do NOT call any tools. Answer now.">>

\* ---------------------------------------------------------- content blocks
NoInput == [title |-> <<>>, content |-> <<>>]
NoId == <<>>

TextBlock(t) ==
    [type |-> "text", text |-> t, id |-> NoId, name |-> "", input |-> NoInput]

ToolUseBlock(id, name, input) ==
    [type |-> "tool_use", text |-> <<>>, id |-> id, name |-> name, input |-> input]

\* A response of the Model Gateway before the gateway has given its
\* tool_use blocks their ids.
WeatherUse == ToolUseBlock(NoId, "get_weather", NoInput)
SaveUse(title) == ToolUseBlock(NoId, "save_briefing", [title |-> title, content |-> <<"c">>])

TextA == <<"a">>
TextBlank == <<" ">>
GoodTitle == <<" ", "t">>
BlankTitle == <<" ">>

PlainToolResponse == << WeatherUse >>
FinalResponse == << TextBlock(TextA) >>

\* What the gateway answers once the script is used up.
TailResponses == { PlainToolResponse, FinalResponse }

CannedResponses ==
    TailResponses \cup
    { <<>>,
      << TextBlock(TextBlank), TextBlock(TextA) >>,
      << TextBlock(TextBlank), WeatherUse >>,
      << TextBlock(TextA), SaveUse(GoodTitle), WeatherUse >>,
      << SaveUse(BlankTitle) >> }

\* The gateway gives every tool_use block of a response its own id.
StampIds(content, round) ==
    [i \in 1..Len(content) |->
        IF content[i].type = "tool_use"
        THEN [content[i] EXCEPT !.id = <<round, i>>]
        ELSE content[i]]

\* ------------------------------------------------------------ tool server
\* save_briefing's validation: the error it returns, <<>> when it saves.
SaveBriefingError(title, content, writeOk) ==
    IF Strip(title) = <<>> THEN <<"title must be a non-empty string">>
    ELSE IF Strip(content) = <<>> THEN <<"content must be a non-empty string">>
    ELSE IF ~writeOk THEN <<"failed to save briefing: ">>
    ELSE <<>>

\* A record that keeps the title as it was passed.
SaveRecordUntrimmed(id, title, content) ==
    [id |-> id, title |-> title, content |-> Strip(content),
     metadata |-> <<>>, tags |-> <<>>]

\* The record save_briefing stores (the timestamps are left out).
SaveRecord(id, title, content) ==
    [id |-> id, title |-> Strip(title), content |-> Strip(content),
     metadata |-> <<>>, tags |-> <<>>]

\* The storage document after save_briefing: the new record first.
SaveBriefingDb(store, id, title, content, writeOk) ==
    IF SaveBriefingError(title, content, writeOk) = <<>>
    THEN << SaveRecord(id, title, content) >> \o store
    ELSE store

\* The dict save_briefing returns, as the one text item the server sends.
SaveBriefingText(id, title, content, writeOk) ==
    IF SaveBriefingError(title, content, writeOk) = <<>>
    THEN <<"id", id, "title">> \o Strip(title)
    ELSE <<"error">> \o SaveBriefingError(title, content, writeOk)

WeatherText == <<"w">>

\* call_tool's result for a tool_use block: result.content, a list of items.
ToolResultContent(tu, id, writeOk) ==
    IF tu.name = "save_briefing"
    THEN << [text |-> SaveBriefingText(id, tu.input.title, tu.input.content, writeOk)] >>
    ELSE << [text |-> WeatherText] >>

\* ----------------------------------------------------------- storage file
\* What data/briefings.json (or its .tmp sibling) holds: no file, text
\* that json.loads rejects, a JSON value that is not an object, an object
\* whose "briefings" is not a list, or an object with a list of records.
\* The other keys of the object are left out.
FileOf(kind, briefings) == [kind |-> kind, briefings |-> briefings]
NoFile == FileOf("missing", <<>>)
Unparseable == FileOf("unparseable", <<>>)
NotAnObject == FileOf("nonobject", <<>>)
NoListObject == FileOf("nolist", <<>>)
Document(briefings) == FileOf("document", briefings)

\* Lines 26-33: the parsed file, or an empty store when there is no file
\* or json.loads raises.
SafeReadJson(file) ==
    IF file.kind \in {"missing", "unparseable"} THEN Document(<<>>) ELSE file

\* db.get exists on a dict only.
HasGet(parsed) == parsed.kind # "nonobject"

\* db.get("briefings", []), a value that is not a list replaced by [].
BriefingsOf(parsed) == IF parsed.kind = "document" THEN parsed.briefings ELSE <<>>

\* Ids are numbered from 1; BlankId stands for a string that is empty
\* after strip().
BlankId == 0
NoRecord == [id |-> BlankId, title |-> <<>>, content |-> <<>>, metadata |-> <<>>, tags |-> <<>>]

\* What a tool function hands back: a dict ("value"), a dict with the key
\* "error" ("error"), or an exception ("raised"); "none" while it runs on.
ToolReturn(status, error, id, record, deleted, items) ==
    [status |-> status, error |-> error, id |-> id, record |-> record,
     deleted |-> deleted, total |-> Len(items), items |-> items]
NoReturn == ToolReturn("none", <<>>, BlankId, NoRecord, FALSE, <<>>)
ErrorReturn(msg) == ToolReturn("error", msg, BlankId, NoRecord, FALSE, <<>>)
RaisedReturn(exc) == ToolReturn("raised", exc, BlankId, NoRecord, FALSE, <<>>)

\* Lines 75-96: what save_briefing returns before it writes, NoReturn
\* when it goes on to write.
SaveBriefingEarly(file, title, content) ==
    IF SaveBriefingError(title, content, TRUE) # <<>>
    THEN ErrorReturn(SaveBriefingError(title, content, TRUE))
    ELSE IF ~HasGet(SafeReadJson(file)) THEN RaisedReturn(<<"AttributeError">>)
    ELSE NoReturn

\* Lines 92-97: the document save_briefing hands to _atomic_write_json.
SaveBriefingDoc(file, id, title, content) ==
    Document(SaveBriefingDb(BriefingsOf(SafeReadJson(file)), id, title, content, TRUE))

\* Line 104: the dict of a save that was written.
SaveBriefingReturn(id, title, content) ==
    ToolReturn("value", <<>>, id, SaveRecord(id, title, content), FALSE, <<>>)

\* Lines 57-104 as one step: the file after save_briefing.
SaveBriefingFile(file, id, title, content, writeOk) ==
    IF SaveBriefingEarly(file, title, content) = NoReturn /\ writeOk
    THEN SaveBriefingDoc(file, id, title, content)
    ELSE file

\* Lines 166-188: get_briefing.
GetBriefing(file, id) ==
    LET parsed == SafeReadJson(file)
        briefings == parsed.briefings
        hits == { i \in 1..Len(briefings) : briefings[i].id = id }
    IN  IF id = BlankId THEN ErrorReturn(<<"id must be a non-empty string">>)
        ELSE IF ~HasGet(parsed) THEN RaisedReturn(<<"AttributeError">>)
        ELSE IF parsed.kind # "document" THEN ErrorReturn(<<"storage is corrupted or empty">>)
        ELSE IF hits = {} THEN ErrorReturn(<<"briefing not found: ">>)
        ELSE LET first == CHOOSE i \in hits : \A j \in hits : i <= j
             IN  ToolReturn("value", <<>>, id, briefings[first], FALSE, <<>>)

\* Lines 201-207: what delete_briefing returns before it writes.
DeleteBriefingEarly(file, id) ==
    IF id = BlankId THEN ErrorReturn(<<"id must be a non-empty string">>)
    ELSE IF ~HasGet(SafeReadJson(file)) THEN RaisedReturn(<<"AttributeError">>)
    ELSE NoReturn

\* A delete that hands the kept records back last first.
DeleteBriefingListReversed(briefings, id) ==
    LET kept == SelectSeq(briefings, LAMBDA b : b.id # id)
    IN  [i \in 1..Len(kept) |-> kept[Len(kept) + 1 - i]]

\* A delete that stops at the first record with the id.
DeleteBriefingFirstOnly(briefings, id) ==
    LET hits == { i \in 1..Len(briefings) : briefings[i].id = id }
    IN  IF hits = {} THEN briefings
        ELSE LET first == CHOOSE i \in hits : \A j \in hits : i <= j
             IN  SubSeq(briefings, 1, first - 1) \o SubSeq(briefings, first + 1, Len(briefings))

\* Line 209: the records delete_briefing keeps.
DeleteBriefingList(briefings, id) == SelectSeq(briefings, LAMBDA b : b.id # id)

\* Lines 205-214: the document delete_briefing hands to _atomic_write_json.
DeleteBriefingDoc(file, id) ==
    Document(DeleteBriefingList(BriefingsOf(SafeReadJson(file)), id))

\* Lines 210, 218: the dict of a delete that was written.
DeleteBriefingReturn(file, id) ==
    LET briefings == BriefingsOf(SafeReadJson(file))
    IN  ToolReturn("value", <<>>, id, NoRecord,
                   Len(DeleteBriefingList(briefings, id)) # Len(briefings), <<>>)

\* Lines 99-102, 213-216: _atomic_write_json raised.
WriteFailedReturn(op) ==
    IF op = "save_briefing" THEN ErrorReturn(<<"failed to save briefing: ">>)
    ELSE ErrorReturn(<<"failed to delete briefing: ">>)

\* Lines 122-126: the limit of list_briefings.
ListLimit(limit) == IF limit < 1 THEN 1 ELSE IF limit > 200 THEN 200 ELSE limit

\* Lines 133-146: a record passes the tag and query filters; <<>> is no
\* filter.
ListMatches(b, tag, query) ==
    LET tag_norm == Lower(Strip(tag))
        q == Lower(Strip(query))
    IN  /\ tag_norm = <<>> \/ \E i \in 1..Len(b.tags) : Lower(b.tags[i]) = tag_norm
        /\ q = <<>> \/ Contains(Lower(b.title), q) \/ Contains(Lower(b.content), q)

\* The entry of the list for a record (created_at is left out).
ListItem(b) == [id |-> b.id, title |-> b.title, tags |-> b.tags, metadata_preview |-> b.metadata]

\* Lines 107-163: list_briefings.
ListBriefings(file, limit, tag, query) ==
    LET parsed == SafeReadJson(file)
        filtered == SelectSeq(BriefingsOf(parsed), LAMBDA b : ListMatches(b, tag, query))
        n == IF Len(filtered) < ListLimit(limit) THEN Len(filtered) ELSE ListLimit(limit)
    IN  IF ~HasGet(parsed) THEN RaisedReturn(<<"AttributeError">>)
        ELSE [ ToolReturn("value", <<>>, BlankId, NoRecord, FALSE,
                          [i \in 1..n |-> ListItem(filtered[i])])
               EXCEPT !.total = Len(filtered) ]

\* A write that goes to the file itself.
WriteInPlace(path, tmp, doc, complete) ==
    << IF complete THEN doc ELSE Unparseable, tmp >>

\* Lines 38-39: write_text on the .tmp sibling; a write that stops part
\* way leaves text that is no JSON document. The pair is << path, tmp >>.
WriteTmp(path, tmp, doc, complete) ==
    << path, IF complete THEN doc ELSE Unparseable >>

\* Line 40: tmp.replace(path), one rename.
ReplacePath(path, tmp) == << tmp, NoFile >>

\* ------------------------------------------------------------- ranking tool
Digits == { "0", "1", "2", "3", "4", "5", "6", "7", "8", "9" }

\* str.split(): the runs of characters between whitespace; `cur` is the
\* run being read.
SplitBreaks == { " ", "\n", "\t", "\r" }
RECURSIVE SplitFrom(_, _)
SplitFrom(s, cur) ==
    IF s = <<>> THEN (IF cur = <<>> THEN <<>> ELSE << cur >>)
    ELSE IF Head(s) \in SplitBreaks
         THEN (IF cur = <<>> THEN <<>> ELSE << cur >>) \o SplitFrom(Tail(s), <<>>)
         ELSE SplitFrom(Tail(s), Append(cur, Head(s)))
Split(s) == SplitFrom(s, <<>>)

\* str.strip() with no argument, on the whitespace of SplitBreaks.
StripWs(s) ==
    LET inner == { i \in 1..Len(s) : s[i] \notin SplitBreaks }
    IN  IF inner = {} THEN <<>>
        ELSE SubSeq(s, CHOOSE i \in inner : \A j \in inner : i <= j,
                       CHOOSE i \in inner : \A j \in inner : j <= i)

\* Lines 37-41: lower case, everything but a-z, 0-9 and whitespace made a
\* space, split, tokens of three characters and more.
Tokenize(text) ==
    LET low == Lower(text)
        clean == [i \in 1..Len(low) |->
                    IF IsLower(low[i]) \/ low[i] \in Digits \/ low[i] \in SplitBreaks
                    THEN low[i] ELSE " "]
    IN  SelectSeq(Split(clean), LAMBDA t : Len(t) >= 3)

EndsWith(s, t) == Len(t) <= Len(s) /\ MatchesAt(s, t, Len(s) - Len(t) + 1)

\* Lines 44-48: urlparse(url).netloc.lower(): what stands between "//" and
\* the next "/", "?" or "#"; empty when the url has no "//" after its
\* scheme.
Domain(url) ==
    LET starts == { i \in 1..Len(url) : MatchesAt(url, << ":", "/", "/" >>, i) }
    IN  IF starts = {} THEN <<>>
        ELSE LET from == (CHOOSE i \in starts : \A j \in starts : i <= j) + 3
                 ends == { i \in from..Len(url) : url[i] \in { "/", "?", "#" } }
                 to == IF ends = {} THEN Len(url)
                       ELSE (CHOOSE i \in ends : \A j \in ends : i <= j) - 1
             IN  Lower(SubSeq(url, from, to))

TRUSTED_TLDS ==
    << << ".", "g", "o", "v" >>,
       << ".", "e", "d", "u" >> >>
TRUSTED_DOMAINS ==
    << << "w", "e", "a", "t", "h", "e", "r", ".", "g", "o", "v" >>,
       << "n", "o", "a", "a", ".", "g", "o", "v" >>,
       << "n", "w", "s", ".", "n", "o", "a", "a", ".", "g", "o", "v" >>,
       << "c", "d", "c", ".", "g", "o", "v" >>,
       << "w", "h", "o", ".", "i", "n", "t" >> >>
LOW_QUALITY_HINTS ==
    << << "p", "i", "n", "t", "e", "r", "e", "s", "t", "." >>,
       << "f", "a", "c", "e", "b", "o", "o", "k", "." >>,
       << "i", "n", "s", "t", "a", "g", "r", "a", "m", "." >>,
       << "t", "i", "k", "t", "o", "k", "." >>,
       << "x", ".", "c", "o", "m" >>,
       << "t", "w", "i", "t", "t", "e", "r", "." >> >>
ARTICLE_PATHS ==
    << << "/", "n", "e", "w", "s" >>,
       << "/", "a", "r", "t", "i", "c", "l", "e" >>,
       << "/", "b", "l", "o", "g" >>,
       << "/", "p", "r", "e", "s", "s" >>,
       << "/", "a", "l", "e", "r", "t", "s" >>,
       << "/", "a", "d", "v", "i", "s", "o", "r", "y" >> >>

\* Scores are counted in ten-thousandths, the unit of round(score, 4).
ScoreUnit == 10000

\* Lines 51-69, 144: the boosts and the penalty.
TldBoost(dom) ==
    IF \E i \in 1..Len(TRUSTED_TLDS) : EndsWith(dom, TRUSTED_TLDS[i]) THEN 2 * ScoreUnit ELSE 0
TrustedDomainBoost(dom) ==
    IF \E i \in 1..Len(TRUSTED_DOMAINS) : Contains(dom, TRUSTED_DOMAINS[i])
    THEN (5 * ScoreUnit) \div 2 ELSE 0
LowQualityPenalty(dom) ==
    IF \E i \in 1..Len(LOW_QUALITY_HINTS) : Contains(dom, LOW_QUALITY_HINTS[i])
    THEN 0 - 2 * ScoreUnit ELSE 0
ArticleBoost(url) ==
    IF \E i \in 1..Len(ARTICLE_PATHS) : Contains(Lower(url), ARTICLE_PATHS[i])
    THEN (3 * ScoreUnit) \div 10 ELSE 0

\* Lines 72-77: how many goal tokens the text holds; the score is this
\* count over the number of goal tokens.
Overlap(goal_tokens, text) ==
    LET hay == Tokenize(text)
    IN  Cardinality({ i \in 1..Len(goal_tokens) :
                        \E j \in 1..Len(hay) : hay[j] = goal_tokens[i] })

\* round(x, 4) of num / den ten-thousandths, to the nearest.
RoundDiv(num, den) == (2 * num + den) \div (2 * den)

\* Lines 124-149: the rounded score of one result.
Score(goal_tokens, item, prefer_official) ==
    LET url == StripWs(item.url)
        dom == Domain(url)
        n == IF Len(goal_tokens) < 1 THEN 1 ELSE Len(goal_tokens)
        keywords == 3 * ScoreUnit * Overlap(goal_tokens, StripWs(item.title))
                    + 2 * ScoreUnit * Overlap(goal_tokens, StripWs(item.snippet))
        rest == (IF prefer_official THEN TldBoost(dom) + TrustedDomainBoost(dom) ELSE 0)
                + LowQualityPenalty(dom) + ArticleBoost(url)
    IN  RoundDiv(keywords + n * rest, n)

\* Lines 115-151: the scored entry of the result at position idx; rank is
\* filled in later.
Scored(goal_tokens, item, idx, prefer_official) ==
    [rank |-> 0, score |-> Score(goal_tokens, item, prefer_official),
     title |-> StripWs(item.title), url |-> StripWs(item.url),
     snippet |-> StripWs(item.snippet), domain |-> Domain(StripWs(item.url)),
     original_index |-> idx]

\* Lines 113-151: the entries of the results that have a url, in order.
RECURSIVE ScoredFrom(_, _, _, _)
ScoredFrom(goal_tokens, results, idx, prefer_official) ==
    IF idx > Len(results) THEN <<>>
    ELSE (IF StripWs(results[idx].url) = <<>> THEN <<>>
          ELSE << Scored(goal_tokens, results[idx], idx, prefer_official) >>)
         \o ScoredFrom(goal_tokens, results, idx + 1, prefer_official)

\* list.sort(key=score, reverse=True) puts an entry behind every entry
\* whose score is not lower: entries of equal score keep their order.
RECURSIVE InsertByScore(_, _)
InsertByScore(sorted, x) ==
    IF sorted = <<>> THEN << x >>
    ELSE IF Head(sorted).score >= x.score
         THEN << Head(sorted) >> \o InsertByScore(Tail(sorted), x)
         ELSE << x >> \o sorted

RECURSIVE SortFrom(_, _)
SortFrom(sorted, rest) ==
    IF rest = <<>> THEN sorted
    ELSE SortFrom(InsertByScore(sorted, Head(rest)), Tail(rest))

\* An ascending sort that is turned round: entries of equal score come
\* out in reverse order.
RECURSIVE InsertAscending(_, _)
InsertAscending(sorted, x) ==
    IF sorted = <<>> THEN << x >>
    ELSE IF Head(sorted).score <= x.score
         THEN << Head(sorted) >> \o InsertAscending(Tail(sorted), x)
         ELSE << x >> \o sorted

RECURSIVE AscendingFrom(_, _)
AscendingFrom(sorted, rest) ==
    IF rest = <<>> THEN sorted
    ELSE AscendingFrom(InsertAscending(sorted, Head(rest)), Tail(rest))

SortAscendingReversed(scored) ==
    LET up == AscendingFrom(<<>>, scored)
    IN  [i \in 1..Len(up) |-> up[Len(up) + 1 - i]]

\* Line 153.
SortByScore(scored) == SortFrom(<<>>, scored)

\* Lines 106-110.
ClampTopK(top_k) == IF top_k < 1 THEN 1 ELSE IF top_k > 20 THEN 20 ELSE top_k

\* Lines 84-167: rank_search_results. original_index counts from 1 here.
RankSearchResults(results, goal, top_k, prefer_official) ==
    IF results = <<>>
    THEN [error |-> <<"results must be a non-empty list">>, top_k |-> 0,
          top_urls |-> <<>>, ranked |-> <<>>, total_scored |-> 0]
    ELSE LET sorted == SortByScore(ScoredFrom(Tokenize(goal), results, 1, prefer_official))
             scored == [i \in 1..Len(sorted) |-> [sorted[i] EXCEPT !.rank = i]]
             k == ClampTopK(top_k)
             top == SubSeq(scored, 1, IF Len(scored) < k THEN Len(scored) ELSE k)
         IN  [error |-> <<>>, top_k |-> k,
              top_urls |-> [i \in 1..Len(top) |-> top[i].url],
              ranked |-> top, total_scored |-> Len(scored)]

\* ------------------------------------------------------------ content tool
\* The characters of s at the positions where keep is TRUE.
KeepWhere(s, keep) ==
    LET tagged == [i \in 1..Len(s) |-> [ch |-> s[i], keep |-> keep[i]]]
        kept == SelectSeq(tagged, LAMBDA p : p.keep)
    IN  [i \in 1..Len(kept) |-> kept[i].ch]

\* The elements of a set of numbers, in rising order.
SortedSeq(S) ==
    [k \in 1..Cardinality(S) |-> CHOOSE x \in S : Cardinality({ y \in S : y < x }) = k - 1]

\* s.split(c) for a character c.
SplitOn(s, c) ==
    LET at == { i \in 1..Len(s) : s[i] = c }
        from == SortedSeq(at \cup {0})
    IN  [k \in 1..Len(from) |->
            LET later == { x \in at : x > from[k] }
                to == IF later = {} THEN Len(s) + 1
                      ELSE CHOOSE x \in later : \A y \in later : x <= y
            IN  SubSeq(s, from[k] + 1, to - 1)]

\* " ".join(s.split())
OneBlock(s) ==
    LET spaced == [i \in 1..Len(s) |-> IF s[i] \in SplitBreaks THEN " " ELSE s[i]]
        single == KeepWhere(spaced,
                      [i \in 1..Len(spaced) |-> ~(spaced[i] = " " /\ i > 1 /\ spaced[i - 1] = " ")])
    IN  StripWs(single)

\* Lines 18-34, lower-case words between word boundaries.
NOISE_PATTERNS ==
    << << "c", "o", "o", "k", "i", "e" >>,
       << "c", "o", "o", "k", "i", "e", "s" >>,
       << "p", "r", "i", "v", "a", "c", "y", " ", "p", "o", "l", "i", "c", "y" >>,
       << "t", "e", "r", "m", "s", " ", "o", "f", " ", "s", "e", "r", "v", "i",
          "c", "e" >>,
       << "a", "c", "c", "e", "p", "t", " ", "a", "l", "l" >>,
       << "s", "u", "b", "s", "c", "r", "i", "b", "e" >>,
       << "s", "i", "g", "n", " ", "i", "n" >>,
       << "l", "o", "g", " ", "i", "n" >>,
       << "n", "e", "w", "s", "l", "e", "t", "t", "e", "r" >>,
       << "s", "h", "a", "r", "e" >>,
       << "f", "a", "c", "e", "b", "o", "o", "k" >>,
       << "t", "w", "i", "t", "t", "e", "r" >>,
       << "i", "n", "s", "t", "a", "g", "r", "a", "m" >>,
       << "l", "i", "n", "k", "e", "d", "i", "n" >>,
       << "d", "o", "w", "n", "l", "o", "a", "d", " ", "o", "u", "r", " ", "a",
          "p", "p" >> >>

\* Line 37.
MIN_LINE_CHARS == 25

\* The one-character bullet of line 66.
Bullet == "BULLET"

\* Lines 40-46: _normalize_whitespace.
NormalizeWhitespace(text) ==
    LET nocr == KeepWhere(text,
                    [i \in 1..Len(text) |->
                        ~(text[i] = "\r" /\ i < Len(text) /\ text[i + 1] = "\n")])
        lf == [i \in 1..Len(nocr) |->
                  IF nocr[i] = "\r" THEN "\n" ELSE IF nocr[i] = "\t" THEN " " ELSE nocr[i]]
        spaces == KeepWhere(lf, [i \in 1..Len(lf) |-> ~(lf[i] = " " /\ i > 1 /\ lf[i - 1] = " ")])
        breaks == KeepWhere(spaces,
                      [i \in 1..Len(spaces) |->
                          ~(spaces[i] = "\n" /\ i > 2 /\ spaces[i - 1] = "\n" /\ spaces[i - 2] = "\n")])
    IN  StripWs(breaks)

\* Lines 49-53: _split_lines.
SplitLines(text) ==
    LET lines == SplitOn(text, "\n")
    IN  SelectSeq([k \in 1..Len(lines) |-> StripWs(lines[k])], LAMBDA ln : ln # <<>>)

Count(s, c) == Cardinality({ i \in 1..Len(s) : s[i] = c })

\* A character of \w.
IsWordChar(c) == IsLower(c) \/ IsUpper(c) \/ c \in Digits \/ c = "_"

\* re.search(r"\bpat\b", low) for a pattern that starts and ends with a
\* word character.
SearchWord(low, pat) ==
    \E i \in 1..Len(low) :
        /\ MatchesAt(low, pat, i)
        /\ i = 1 \/ ~IsWordChar(low[i - 1])
        /\ i + Len(pat) - 1 = Len(low) \/ ~IsWordChar(low[i + Len(pat)])

\* Lines 56-83: _looks_like_noise.
LooksLikeNoise(line) ==
    LET low == Lower(line)
        letters == Cardinality({ i \in 1..Len(line) : IsUpper(line[i]) \/ IsLower(line[i]) })
        uppers == Cardinality({ i \in 1..Len(line) : IsUpper(line[i]) })
    IN  IF Len(line) < MIN_LINE_CHARS
        THEN line[Len(line)] \notin { ".", "?", "!" }
        ELSE \/ Count(low, "|") >= 3
             \/ Count(low, Bullet) >= 3
             \/ letters > 0 /\ 100 * uppers > 85 * letters /\ Len(line) < 120
             \/ /\ \E k \in 1..Len(NOISE_PATTERNS) : SearchWord(low, NOISE_PATTERNS[k])
                /\ Len(line) < 160

\* s.rfind(t), counted from 1; 0 when t is not in s.
RFind(s, t) ==
    LET at == { i \in 1..Len(s) : MatchesAt(s, t, i) }
    IN  IF at = {} THEN 0 ELSE CHOOSE i \in at : \A j \in at : j <= i

TRUNCATED == << "\n", "\n", ".", ".", ".", "[", "t", "r", "u", "n", "c", "a", "t", "e",
                "d", "]" >>

\* Lines 86-95: _truncate_safely. last_break > max_chars * 0.6, with
\* last_break counted from 0, is 5 * (break - 1) > 3 * max_chars.
TruncateSafely(text, max_chars) ==
    IF max_chars <= 0 \/ Len(text) <= max_chars THEN text
    ELSE LET cut == SubSeq(text, 1, max_chars)
             finds == { RFind(cut, << "\n", "\n" >>), RFind(cut, << ".", " " >>),
                        RFind(cut, << "!", " " >>), RFind(cut, << "?", " " >>) }
             break == CHOOSE i \in finds : \A j \in finds : j <= i
         IN  StripWs(IF 5 * (break - 1) > 3 * max_chars THEN SubSeq(cut, 1, break) ELSE cut)
             \o TRUNCATED

\* Lines 123-127.
ClampMaxChars(max_chars) ==
    IF max_chars < 500 THEN 500 ELSE IF max_chars > 200000 THEN 200000 ELSE max_chars

\* What extract_main_text hands back; error is <<>> for a dict with
\* clean_text.
Extracted(error, clean_text, note) ==
    [error |-> error, clean_text |-> clean_text, length |-> Len(clean_text), note |-> note]

\* Lines 129-135: the text without its noise lines.
RemoveNoise(text) ==
    StripWs(Join(<< "\n", "\n" >>, SelectSeq(SplitLines(text), LAMBDA ln : ~LooksLikeNoise(ln))))

\* Lines 102-156: extract_main_text.
ExtractMainText(content, max_chars, keep_paragraphs, remove_noise) ==
    IF StripWs(content) = <<>>
    THEN Extracted(<<"content must be a non-empty string">>, <<>>, <<>>)
    ELSE LET normal == NormalizeWhitespace(content)
             text == IF remove_noise THEN RemoveNoise(normal) ELSE normal
         IN  IF text = <<>>
             THEN Extracted(<<>>, <<>>, <<"All content filtered out as noise. Try remove_noise=false.">>)
             ELSE Extracted(<<>>,
                            TruncateSafely(IF keep_paragraphs THEN text ELSE OneBlock(text),
                                           ClampMaxChars(max_chars)),
                            <<>>)

\* --------------------------------------------------------- process_query
\* Lines 178-187: result.content joined into one string.
ToolOutputStr(content) ==
    Join(NL, [i \in 1..Len(content) |-> content[i].text])

\* A result keyed by the round and not by the block it answers.
ToolResultBlockFirstId(tu, out) ==
    [type |-> "tool_result", tool_use_id |-> << tu.id[1], 1 >>, content |-> out]

\* Lines 189-193.
ToolResultBlock(tu, out) ==
    [type |-> "tool_result", tool_use_id |-> tu.id, content |-> out]

UserMessage(content) == [role |-> "user", content |-> content]
AssistantMessage(content) == [role |-> "assistant", content |-> content]
GuidanceMessage ==
    [role |-> "system", content |-> <<"The briefing has been successfully saved.">>]

\* A history that is handed on as it is.
StripControlKeepsAll(ms) == ms

\* Line 140: the history without its system-role messages.
RECURSIVE StripControl(_)
StripControl(ms) ==
    IF ms = <<>> THEN <<>>
    ELSE IF Head(ms).role # "system"
         THEN << Head(ms) >> \o StripControl(Tail(ms))
         ELSE StripControl(Tail(ms))

\* Lines 153-154: the blocks of one type, in order.
RECURSIVE BlocksOfType(_, _)
BlocksOfType(content, type) ==
    IF content = <<>> THEN <<>>
    ELSE IF Head(content).type = type
         THEN << Head(content) >> \o BlocksOfType(Tail(content), type)
         ELSE BlocksOfType(Tail(content), type)

TextsOf(content) ==
    LET tb == BlocksOfType(content, "text")
    IN  [i \in 1..Len(tb) |-> tb[i].text]

\* Lines 136-138.
SystemPrompt(saved) ==
    IF saved THEN BASE_SYSTEM_PROMPT \o ALREADY_SAVED ELSE BASE_SYSTEM_PROMPT

\* A bound that lets one round too many through.
RoundLimitOffByOne(r) == r > MAX_TOOL_ROUNDS + 1

\* Line 130.
RoundLimitExceeded(r) == r > MAX_TOOL_ROUNDS

\* A final text that is joined but not trimmed.
FinalTextUntrimmed(parts) == Join(NL, parts)

\* Line 215.
FinalText(parts) == Strip(Join(NL, parts))

\* A forced stop that drops the text collected so far.
ForcedStopOnlyNotice(parts) == STOP_NO_TEXT

\* Lines 132-135.
ForcedStopText(parts) ==
    IF FinalText(parts) # <<>>
    THEN FinalText(parts) \o NL \o NL \o STOP_AFTER_TEXT
    ELSE STOP_NO_TEXT

\* Lines 196-197.
MarksSaved(tu) == tu.name = "save_briefing"

\* A collection that keeps the texts of the round at hand only.
CollectTextsLastRound(parts, content) == TextsOf(content)

\* Lines 154-157: the round's text blocks go behind the ones collected.
CollectTexts(parts, content) == parts \o TextsOf(content)

\* ------------------------------------------------------------------ state
VARIABLES
    \* st.session_state
    mcp_client,       \* index into clients, 0 for None
    connected,
    tool_names,
    chat,
    \* the MCPClient objects constructed so far: [session, exit_stack]
    clients,
    \* one process_query run
    pc,               \* "idle", "loop", "tools", "returned", "raised"
    messages,
    final_text_parts,
    rounds,
    briefing_saved,
    tool_uses,
    tool_results,
    result,
    error,
    \* what the run's collaborators saw
    sent,             \* arguments of the last messages.create call
    modelCalls,
    toolCalls,
    called,           \* the call_tool invocations of the run, in order
    okRound,          \* round of the first save_briefing that returned an id
    caller,           \* who awaits the run: "none", "chat", "direct"
    inflight,         \* queries whose process_query has started and not ended
    \* environment
    scriptLeft,
    db,               \* data/briefings.json
    uuids,            \* ids handed out by uuid4
    \* tool server
    tmp,              \* data/briefings.json.tmp
    srv,              \* the storage tool call that is running
    last,             \* the tool call that ended last, and what it returned
    live,             \* saves that returned an id not passed to delete since
    storeCalls,       \* storage tool calls made
    writers,          \* the storage tool call of each of two server processes
    fn                \* a call of a pure tool function and what it returned

sessionVars == << mcp_client, connected, tool_names, chat, clients >>
runVars ==
    << pc, messages, final_text_parts, rounds, briefing_saved, tool_uses,
       tool_results, result, error, sent, modelCalls, toolCalls, called, okRound, caller,
       inflight >>
toolVars == << tmp, srv, last, live, storeCalls, writers, fn >>
envVars == << scriptLeft, db, uuids, toolVars >>
vars == << sessionVars, runVars, envVars >>

ToolNames == <<"get_weather", "save_briefing">>
NoCall == [system |-> <<>>, messages |-> <<>>]
Prompt == <<"q">>

\* The locals of process_query before a run.
RunIdle ==
    /\ pc = "idle"
    /\ messages = <<>>
    /\ final_text_parts = <<>>
    /\ rounds = 0
    /\ briefing_saved = FALSE
    /\ tool_uses = <<>>
    /\ tool_results = <<>>
    /\ result = <<>>
    /\ error = "none"
    /\ sent = NoCall
    /\ modelCalls = 0
    /\ toolCalls = 0
    /\ called = <<>>
    /\ okRound = 0
    /\ caller = "none"
    /\ inflight = {}

\* The tool server between calls, nothing called yet.
SrvIdle == [pc |-> "idle", op |-> "none", id |-> BlankId, title |-> <<>>, content |-> <<>>,
            doc |-> NoFile, ret |-> NoReturn]
\* Two server processes, each spawned by a Connect (lines 76-96 of the client),
\* both on data/briefings.json of one working directory.
Writers == { 1, 2 }
WritersIdle == [p \in Writers |-> SrvIdle]
NoLast == [op |-> "none", id |-> BlankId, ret |-> NoReturn]
FnIdle == [name |-> "none"]
ToolsIdle ==
    /\ tmp = NoFile
    /\ srv = SrvIdle
    /\ writers = WritersIdle
    /\ last = NoLast
    /\ live = {}
    /\ storeCalls = 0
    /\ fn = FnIdle

\* Line 175: what call_tool is called with.
CallRecord(tu) == [id |-> tu.id, name |-> tu.name, input |-> tu.input]

\* The count of the prompts a chat holds: the number of the query that
\* was submitted last.
QueryNo(turns) == Cardinality({ i \in 1..Len(turns) : turns[i][1] = "user" })

\* process_query ends, by return or by exception: the query at hand is no
\* longer in flight.
Landed == inflight \ { QueryNo(chat) }

\* A client as Connect leaves it when everything succeeded.
ConnectedClient == [session |-> TRUE, exit_stack |-> <<"stdio", "session">>]

\* A session whose Connect succeeded, before its first prompt.
Init ==
    /\ mcp_client = 1
    /\ connected = TRUE
    /\ tool_names = ToolNames
    /\ chat = <<>>
    /\ clients = << ConnectedClient >>
    /\ RunIdle
    /\ scriptLeft = ScriptLen
    /\ db = NoFile
    /\ uuids = 0
    /\ ToolsIdle

\* ------------------------------------------------- process_query, by step
\* Lines 105-127: the locals, and list_tools on self.session. A session
\* that is None has no list_tools: the call raises AttributeError.
FreshLocals ==
    /\ messages' = << UserMessage(Prompt) >>
    /\ final_text_parts' = <<>>
    /\ rounds' = 0
    /\ briefing_saved' = FALSE
    /\ tool_uses' = <<>>
    /\ tool_results' = <<>>
    /\ result' = <<>>
    /\ sent' = NoCall
    /\ modelCalls' = 0
    /\ toolCalls' = 0
    /\ called' = <<>>
    /\ okRound' = 0

\* An entry that takes a missing session for an empty tool list.
EnterProcessQueryWithoutSession(c, listed) ==
    /\ FreshLocals
    /\ IF clients[c].session /\ ~listed
       THEN pc' = "raised" /\ error' = "list_tools"
       ELSE pc' = "loop" /\ error' = "none"

EnterProcessQuery(c, listed) ==
    /\ FreshLocals
    /\ IF ~clients[c].session
       THEN pc' = "raised" /\ error' = "AttributeError"
       ELSE IF ~listed
            THEN pc' = "raised" /\ error' = "list_tools"
            ELSE pc' = "loop" /\ error' = "none"

\* Lines 129-135: the round counter trips the bound.
RoundLimit ==
    /\ pc = "loop"
    /\ RoundLimitExceeded(rounds + 1)
    /\ rounds' = rounds + 1
    /\ result' = ForcedStopText(final_text_parts)
    /\ pc' = "returned"
    /\ inflight' = Landed
    /\ UNCHANGED << messages, final_text_parts, briefing_saved, tool_uses,
                    tool_results, error, sent, modelCalls, toolCalls, called, okRound, caller >>
    /\ UNCHANGED << sessionVars, envVars >>

\* What the Model Gateway may answer.
GatewayResponses == IF scriptLeft > 0 THEN CannedResponses ELSE TailResponses

\* Lines 129-163: one model call that returns.
ModelCall ==
    /\ pc = "loop"
    /\ ~RoundLimitExceeded(rounds + 1)
    /\ \E canned \in GatewayResponses :
        LET history == StripControl(messages)
            assistant_content == StampIds(canned, rounds + 1)
            uses == BlocksOfType(assistant_content, "tool_use")
            parts == CollectTexts(final_text_parts, assistant_content)
        IN  /\ rounds' = rounds + 1
            /\ sent' = [system |-> SystemPrompt(briefing_saved), messages |-> history]
            /\ modelCalls' = modelCalls + 1
            /\ messages' = Append(history, AssistantMessage(assistant_content))
            /\ final_text_parts' = parts
            /\ tool_uses' = uses
            /\ tool_results' = <<>>
            /\ IF uses = <<>>
               THEN pc' = "returned" /\ result' = FinalText(parts) /\ inflight' = Landed
               ELSE pc' = "tools" /\ result' = result /\ inflight' = inflight
    /\ scriptLeft' = IF scriptLeft > 0 THEN scriptLeft - 1 ELSE 0
    /\ UNCHANGED << briefing_saved, error, toolCalls, called, okRound, caller >>
    /\ UNCHANGED << sessionVars, db, uuids, toolVars >>

\* Lines 129-148: the model call raises (rate limit, auth, protocol).
ModelCallRaises ==
    /\ pc = "loop"
    /\ ~RoundLimitExceeded(rounds + 1)
    /\ rounds' = rounds + 1
    /\ sent' = [system |-> SystemPrompt(briefing_saved), messages |-> StripControl(messages)]
    /\ modelCalls' = modelCalls + 1
    /\ messages' = StripControl(messages)
    /\ pc' = "raised"
    /\ error' = "gateway"
    /\ inflight' = Landed
    /\ UNCHANGED << final_text_parts, briefing_saved, tool_uses, tool_results,
                    result, toolCalls, called, okRound, caller >>
    /\ UNCHANGED << sessionVars, envVars >>

\* One user message for each result of the round.
AppendResultsOneEach(ms, results, saved) ==
    ms \o [i \in 1..Len(results) |-> UserMessage(<< results[i] >>)]
       \o (IF saved THEN << GuidanceMessage >> ELSE <<>>)

\* The guidance put before the round's results.
AppendResultsGuidanceFirst(ms, results, saved) ==
    IF saved
    THEN ms \o << GuidanceMessage, UserMessage(results) >>
    ELSE ms \o << UserMessage(results) >>

\* Lines 201-213: the round's results, then the guidance once saved.
AppendResults(ms, results, saved) ==
    IF saved
    THEN ms \o << UserMessage(results), GuidanceMessage >>
    ELSE ms \o << UserMessage(results) >>

\* A loop with a hard skip: once the flag is set, a save_briefing request
\* gets a result without call_tool.
ToolCallSkipsRepeatedSave ==
    /\ pc = "tools"
    /\ \E writeOk \in BOOLEAN :
        LET tu == tool_uses[Len(tool_results) + 1]
            isSave == tu.name = "save_briefing"
            skip == isSave /\ briefing_saved
            content == ToolResultContent(tu, uuids + 1, writeOk)
            results == Append(tool_results, ToolResultBlock(tu, ToolOutputStr(content)))
            saved == briefing_saved \/ MarksSaved(tu)
            stored == isSave /\ SaveBriefingError(tu.input.title, tu.input.content, writeOk) = <<>>
        IN  /\ isSave \/ writeOk
            /\ toolCalls' = IF skip THEN toolCalls ELSE toolCalls + 1
            /\ called' = IF skip THEN called ELSE Append(called, CallRecord(tu))
            /\ tool_results' = results
            /\ briefing_saved' = saved
            /\ okRound' = IF stored /\ okRound = 0 THEN rounds ELSE okRound
            /\ db' = IF isSave /\ ~skip
                     THEN SaveBriefingFile(db, uuids + 1, tu.input.title, tu.input.content, writeOk)
                     ELSE db
            /\ uuids' = IF isSave /\ ~skip /\ Strip(tu.input.title) # <<>> /\ Strip(tu.input.content) # <<>>
                        THEN uuids + 1 ELSE uuids
            /\ IF Len(results) = Len(tool_uses)
               THEN /\ messages' = AppendResults(messages, results, saved)
                    /\ pc' = "loop"
               ELSE /\ messages' = messages
                    /\ pc' = "tools"
    /\ UNCHANGED << final_text_parts, rounds, tool_uses, result, error, sent, modelCalls, caller,
                    inflight >>
    /\ UNCHANGED << sessionVars, scriptLeft, toolVars >>

\* Lines 168-213: the next tool call of the round returns a result.
ToolCallReturns ==
    /\ pc = "tools"
    /\ \E writeOk \in BOOLEAN :
        LET tu == tool_uses[Len(tool_results) + 1]
            isSave == tu.name = "save_briefing"
            content == ToolResultContent(tu, uuids + 1, writeOk)
            results == Append(tool_results, ToolResultBlock(tu, ToolOutputStr(content)))
            saved == briefing_saved \/ MarksSaved(tu)
            stored == isSave /\ SaveBriefingError(tu.input.title, tu.input.content, writeOk) = <<>>
        IN  /\ isSave \/ writeOk
            /\ toolCalls' = toolCalls + 1
            /\ called' = Append(called, CallRecord(tu))
            /\ tool_results' = results
            /\ briefing_saved' = saved
            /\ okRound' = IF stored /\ okRound = 0 THEN rounds ELSE okRound
            /\ db' = IF isSave
                     THEN SaveBriefingFile(db, uuids + 1, tu.input.title, tu.input.content, writeOk)
                     ELSE db
            /\ uuids' = IF isSave /\ Strip(tu.input.title) # <<>> /\ Strip(tu.input.content) # <<>>
                        THEN uuids + 1 ELSE uuids
            /\ IF Len(results) = Len(tool_uses)
               THEN /\ messages' = AppendResults(messages, results, saved)
                    /\ pc' = "loop"
               ELSE /\ messages' = messages
                    /\ pc' = "tools"
    /\ UNCHANGED << final_text_parts, rounds, tool_uses, result, error, sent, modelCalls, caller,
                    inflight >>
    /\ UNCHANGED << sessionVars, scriptLeft, toolVars >>

\* Line 175: call_tool raises; nothing in process_query catches it.
ToolCallRaises ==
    /\ pc = "tools"
    /\ toolCalls' = toolCalls + 1
    /\ called' = Append(called, CallRecord(tool_uses[Len(tool_results) + 1]))
    /\ pc' = "raised"
    /\ error' = "call_tool"
    /\ inflight' = Landed
    /\ UNCHANGED << messages, final_text_parts, rounds, briefing_saved, tool_uses,
                    tool_results, result, sent, modelCalls, okRound, caller >>
    /\ UNCHANGED << sessionVars, envVars >>

\* ------------------------------------------------------------- the page
\* Lines 104-127: a process_query that got past list_tools is in flight.
Taken(flying, at, turns) ==
    IF at = "loop" THEN flying \cup { QueryNo(turns) } ELSE flying

\* Lines 290, 292: the chat handler takes a prompt.
AcceptsPrompt == connected /\ mcp_client # 0

\* A handler whose run_async hands the coroutine over and returns before it
\* has ended: the script is free for the next prompt.
ChatSubmitNotBlocking ==
    /\ Len(chat) < 2 * MaxQueries
    /\ AcceptsPrompt
    /\ chat' = Append(chat, << "user", "prompt" >>)
    /\ \E listed \in BOOLEAN : EnterProcessQuery(mcp_client, listed)
    /\ caller' = "chat"
    /\ inflight' = Taken(inflight, pc', chat')
    /\ UNCHANGED << mcp_client, connected, tool_names, clients >>
    /\ UNCHANGED envVars

\* Lines 30-39 and 289-300: a prompt is submitted and process_query starts.
\* run_until_complete keeps the script inside run_async until the coroutine
\* has ended, so the handler is entered with no run at hand.
ChatSubmit ==
    /\ pc = "idle"
    /\ Len(chat) < 2 * MaxQueries
    /\ AcceptsPrompt
    /\ chat' = Append(chat, << "user", "prompt" >>)
    /\ \E listed \in BOOLEAN : EnterProcessQuery(mcp_client, listed)
    /\ caller' = "chat"
    /\ inflight' = Taken(inflight, pc', chat')
    /\ UNCHANGED << mcp_client, connected, tool_names, clients >>
    /\ UNCHANGED envVars

\* process_query is left: its locals are gone.
DropRun ==
    /\ pc' = "idle"
    /\ messages' = <<>>
    /\ final_text_parts' = <<>>
    /\ rounds' = 0
    /\ briefing_saved' = FALSE
    /\ tool_uses' = <<>>
    /\ tool_results' = <<>>
    /\ result' = <<>>
    /\ error' = "none"
    /\ sent' = NoCall
    /\ modelCalls' = 0
    /\ toolCalls' = 0
    /\ called' = <<>>
    /\ okRound' = 0
    /\ caller' = "none"
    /\ inflight' = inflight

\* A handler that takes an exception for a lost connection.
ChatAnswerDropsConnection ==
    /\ pc \in {"returned", "raised"}
    /\ caller = "chat"
    /\ chat' = Append(chat, << "assistant", IF pc = "raised" THEN "error" ELSE "answer" >>)
    /\ DropRun
    /\ connected' = (pc # "raised")
    /\ UNCHANGED << mcp_client, tool_names, clients >>
    /\ UNCHANGED envVars

\* Lines 300-305: process_query returned or raised; the answer joins the chat.
ChatAnswer ==
    /\ pc \in {"returned", "raised"}
    /\ caller = "chat"
    /\ chat' = Append(chat, << "assistant", IF pc = "raised" THEN "error" ELSE "answer" >>)
    /\ DropRun
    /\ UNCHANGED << mcp_client, connected, tool_names, clients >>
    /\ UNCHANGED envVars

Next ==
    \/ ChatSubmit
    \/ RoundLimit
    \/ ModelCall
    \/ ModelCallRaises
    \/ ToolCallReturns
    \/ ToolCallRaises
    \/ ChatAnswer

Spec == Init /\ [][Next]_vars

\* ------------------------------------------- a prompt during a running query
\* Lines 41-42, 141, 163, 172, 176 and 287-300: a prompt is submitted while
\* process_query runs. The session's script runs in one thread, which is
\* inside run_until_complete; the page stops the run at its next st.write
\* (the log calls of the loop) by an exception that passes through the
\* coroutine and run_async, and runs the script again with the new prompt.
\* A stop at line 176 of a round's last tool call leaves what the stop at
\* line 141 after it leaves: the locals are gone either way.
RerunInterrupts ==
    /\ pc \in {"loop", "tools"}
    /\ caller = "chat"
    /\ Len(chat) < 2 * MaxQueries
    /\ AcceptsPrompt
    /\ chat' = Append(chat, << "user", "prompt" >>)
    /\ \E listed \in BOOLEAN : EnterProcessQuery(mcp_client, listed)
    /\ caller' = "chat"
    /\ inflight' = Taken(Landed, pc', chat')
    /\ UNCHANGED << mcp_client, connected, tool_names, clients >>
    /\ UNCHANGED envVars

\* The page of a connected session, prompts arriving at any time: one that
\* arrives while the script is at rest waits for ChatSubmit.
NextRerun ==
    \/ ChatSubmit
    \/ RerunInterrupts
    \/ RoundLimit
    \/ ModelCall
    \/ ModelCallRaises
    \/ ToolCallReturns
    \/ ToolCallRaises
    \/ ChatAnswer

SpecRerun == Init /\ [][NextRerun]_vars

\* ------------------------------------------------- the connection's life
\* Where a Connect click may stop.
ConnectOutcomes ==
    { "no_api_key", "spawn_fails", "session_fails", "initialize_fails",
      "list_tools_fails", "ok" }

\* Lines 66-68 and 76-96: the MCPClient a Connect click leaves behind when
\* the constructor returned. The exit stack keeps what was entered.
ConnectToServer(outcome) ==
    CASE outcome = "spawn_fails" -> [session |-> FALSE, exit_stack |-> <<>>]
      [] outcome = "session_fails" -> [session |-> FALSE, exit_stack |-> <<"stdio">>]
      [] OTHER -> [session |-> TRUE, exit_stack |-> <<"stdio", "session">>]

\* Lines 218-219: the exit stack closes everything it holds.
Cleanup(client) == [client EXCEPT !.exit_stack = <<>>]

\* Lines 247-259: the Connect button.
Connect ==
    /\ pc = "idle"
    /\ Len(clients) < MaxClients
    /\ \E outcome \in ConnectOutcomes :
        /\ IF outcome = "no_api_key"
           THEN UNCHANGED << mcp_client, clients >>
           ELSE /\ clients' = Append(clients, ConnectToServer(outcome))
                /\ mcp_client' = Len(clients) + 1
        /\ connected' = (outcome = "ok")
        /\ tool_names' = IF outcome = "ok" THEN ToolNames ELSE <<>>
    /\ UNCHANGED << chat, runVars, envVars >>

\* Lines 262-271: the Disconnect button.
Disconnect ==
    /\ pc = "idle"
    /\ clients' = IF mcp_client # 0
                  THEN [clients EXCEPT ![mcp_client] = Cleanup(clients[mcp_client])]
                  ELSE clients
    /\ mcp_client' = 0
    /\ connected' = FALSE
    /\ tool_names' = <<>>
    /\ UNCHANGED << chat, runVars, envVars >>

\* Lines 290-291: a prompt while not connected is answered with an error
\* banner; nothing is stored.
ChatRejected ==
    /\ pc = "idle"
    /\ ~AcceptsPrompt
    /\ UNCHANGED vars

\* Lines 104-107: process_query awaited on the client by a caller that is
\* not the chat handler, while the client has no session.
DirectQuery ==
    /\ pc = "idle"
    /\ mcp_client # 0
    /\ ~clients[mcp_client].session
    /\ EnterProcessQuery(mcp_client, TRUE)
    /\ caller' = "direct"
    /\ inflight' = Taken(inflight, pc', chat)
    /\ UNCHANGED << sessionVars, envVars >>

\* The direct caller takes the outcome; the locals are gone.
DirectReturn ==
    /\ pc \in {"returned", "raised"}
    /\ caller = "direct"
    /\ DropRun
    /\ UNCHANGED << sessionVars, envVars >>

\* The page on its first load; the gateway has no script.
InitSession ==
    /\ mcp_client = 0
    /\ connected = FALSE
    /\ tool_names = <<>>
    /\ chat = <<>>
    /\ clients = <<>>
    /\ RunIdle
    /\ scriptLeft = 0
    /\ db = NoFile
    /\ uuids = 0
    /\ ToolsIdle

NextSession ==
    \/ Connect
    \/ Disconnect
    \/ ChatRejected
    \/ ChatSubmit
    \/ DirectQuery
    \/ RoundLimit
    \/ ModelCall
    \/ ModelCallRaises
    \/ ToolCallReturns
    \/ ToolCallRaises
    \/ ChatAnswer
    \/ DirectReturn

SpecSession == InitSession /\ [][NextSession]_vars


\* ------------------------------------------------- the storage tools, by step
\* A record of a store written by earlier sessions.
PriorRecord(id, title) ==
    [id |-> id, title |-> title, content |-> <<"c">>, metadata |-> <<>>, tags |-> << <<"X">> >>]

\* The contents of data/briefings.json the tools may find at their first
\* call.
InitialFiles ==
    { NoFile, Unparseable, NotAnObject, NoListObject, Document(<<>>),
      Document(<< PriorRecord(8, <<"t">>), PriorRecord(9, <<"T", "a">>), PriorRecord(8, <<"a">>) >>) }

\* The arguments the tools are called with.
SaveInputs ==
    { << GoodTitle, <<"c", " ">> >>, << BlankTitle, <<"c", " ">> >>, << GoodTitle, <<" ">> >> }
IdInputs == { BlankId, 1, 2, 8 }
ListInputs ==
    { << 0, <<>>, <<>> >>, << 2, <<"x", " ">>, <<>> >>, << 201, <<>>, <<" ", "A">> >> }

\* No client and no run: the tool server is called on its own.
InitStore ==
    /\ mcp_client = 0
    /\ connected = FALSE
    /\ tool_names = <<>>
    /\ chat = <<>>
    /\ clients = <<>>
    /\ RunIdle
    /\ scriptLeft = 0
    /\ db \in InitialFiles
    /\ uuids = 0
    /\ ToolsIdle

StoreFrame == UNCHANGED << sessionVars, runVars, scriptLeft, writers, fn >>

Ended(op, id, ret) == [op |-> op, id |-> id, ret |-> ret]

\* Lines 75-97: save_briefing up to the write.
CallSave ==
    /\ srv.pc = "idle"
    /\ storeCalls < MaxStoreCalls
    /\ storeCalls' = storeCalls + 1
    /\ \E in \in SaveInputs :
        LET title == in[1]
            content == in[2]
            early == SaveBriefingEarly(db, title, content)
            id == uuids + 1
        IN  /\ uuids' = IF SaveBriefingError(title, content, TRUE) = <<>> THEN id ELSE uuids
            /\ IF early # NoReturn
               THEN /\ last' = Ended("save_briefing", BlankId, early)
                    /\ srv' = srv
               ELSE /\ last' = last
                    /\ srv' = [pc |-> "write", op |-> "save_briefing", id |-> id,
                               title |-> title, content |-> content,
                               doc |-> SaveBriefingDoc(db, id, title, content),
                               ret |-> SaveBriefingReturn(id, title, content)]
    /\ UNCHANGED << db, tmp, live >>
    /\ StoreFrame

\* Lines 201-211: delete_briefing up to the write.
CallDelete ==
    /\ srv.pc = "idle"
    /\ storeCalls < MaxStoreCalls
    /\ storeCalls' = storeCalls + 1
    /\ \E id \in IdInputs :
        LET early == DeleteBriefingEarly(db, id)
        IN  /\ live' = { s \in live : s.id # id }
            /\ IF early # NoReturn
               THEN /\ last' = Ended("delete_briefing", id, early)
                    /\ srv' = srv
               ELSE /\ last' = last
                    /\ srv' = [pc |-> "write", op |-> "delete_briefing", id |-> id,
                               title |-> <<>>, content |-> <<>>,
                               doc |-> DeleteBriefingDoc(db, id),
                               ret |-> DeleteBriefingReturn(db, id)]
    /\ UNCHANGED << db, tmp, uuids >>
    /\ StoreFrame

\* Lines 166-188: get_briefing.
CallGet ==
    /\ srv.pc = "idle"
    /\ storeCalls < MaxStoreCalls
    /\ storeCalls' = storeCalls + 1
    /\ \E id \in IdInputs : last' = Ended("get_briefing", id, GetBriefing(db, id))
    /\ UNCHANGED << db, tmp, uuids, srv, live >>
    /\ StoreFrame

\* Lines 107-163: list_briefings.
CallList ==
    /\ srv.pc = "idle"
    /\ storeCalls < MaxStoreCalls
    /\ storeCalls' = storeCalls + 1
    /\ \E in \in ListInputs :
          last' = Ended("list_briefings", BlankId, ListBriefings(db, in[1], in[2], in[3]))
    /\ UNCHANGED << db, tmp, uuids, srv, live >>
    /\ StoreFrame

\* Lines 37-39: the .tmp file is written in full.
WriteText ==
    /\ srv.pc = "write"
    /\ db' = WriteTmp(db, tmp, srv.doc, TRUE)[1]
    /\ tmp' = WriteTmp(db, tmp, srv.doc, TRUE)[2]
    /\ srv' = [srv EXCEPT !.pc = "replace"]
    /\ UNCHANGED << uuids, last, live, storeCalls >>
    /\ StoreFrame

\* Lines 37-39 raise (no directory, disk full): the tool returns its
\* error dict; the .tmp file is untouched or holds a part of the text.
WriteTextFails ==
    /\ srv.pc = "write"
    /\ \E touched \in BOOLEAN :
        LET files == IF touched THEN WriteTmp(db, tmp, srv.doc, FALSE) ELSE << db, tmp >>
        IN  db' = files[1] /\ tmp' = files[2]
    /\ last' = Ended(srv.op, srv.id, WriteFailedReturn(srv.op))
    /\ srv' = SrvIdle
    /\ UNCHANGED << uuids, live, storeCalls >>
    /\ StoreFrame

\* Line 40 and the return: the rename, and the tool returns its dict.
Replace ==
    /\ srv.pc = "replace"
    /\ db' = ReplacePath(db, tmp)[1]
    /\ tmp' = ReplacePath(db, tmp)[2]
    /\ last' = Ended(srv.op, srv.id, srv.ret)
    /\ live' = IF srv.op = "save_briefing"
               THEN live \cup { [id |-> srv.id, title |-> srv.title, content |-> srv.content] }
               ELSE live
    /\ srv' = SrvIdle
    /\ UNCHANGED << uuids, storeCalls >>
    /\ StoreFrame

\* Line 40 raises: the tool returns its error dict, the .tmp file stays.
ReplaceFails ==
    /\ srv.pc = "replace"
    /\ last' = Ended(srv.op, srv.id, WriteFailedReturn(srv.op))
    /\ srv' = SrvIdle
    /\ UNCHANGED << db, tmp, uuids, live, storeCalls >>
    /\ StoreFrame

CrashedReturn == ToolReturn("crashed", <<>>, BlankId, NoRecord, FALSE, <<>>)

\* The server process dies during a write: in write_text (the .tmp file
\* holds what was written so far), between write_text and the rename, or
\* after the rename and before the tool returns.
Crash ==
    /\ srv.pc \in {"write", "replace"}
    /\ \E done \in BOOLEAN :
        LET files ==
                IF srv.pc = "write"
                THEN IF done THEN << db, tmp >> ELSE WriteTmp(db, tmp, srv.doc, FALSE)
                ELSE IF done THEN ReplacePath(db, tmp) ELSE << db, tmp >>
        IN  db' = files[1] /\ tmp' = files[2]
    /\ last' = Ended(srv.op, srv.id, CrashedReturn)
    /\ srv' = SrvIdle
    /\ UNCHANGED << uuids, live, storeCalls >>
    /\ StoreFrame

NextStore ==
    \/ CallSave
    \/ CallDelete
    \/ CallGet
    \/ CallList
    \/ WriteText
    \/ WriteTextFails
    \/ Replace
    \/ ReplaceFails
    \/ Crash

SpecStore == InitStore /\ [][NextStore]_vars

\* ------------------------------------------- two servers on one storage file
\* The tools take no lock: a server reads the file, builds the new document
\* and writes it through the one .tmp sibling, and another server's steps
\* may fall between any two of these. Each of the read, write_text and
\* replace is one step.
WriterFiles == { NoFile, Document(<<>>), Document(<< PriorRecord(8, <<"t">>) >>) }

InitWriters ==
    /\ mcp_client = 0
    /\ connected = FALSE
    /\ tool_names = <<>>
    /\ chat = <<>>
    /\ clients = <<>>
    /\ RunIdle
    /\ scriptLeft = 0
    /\ db \in WriterFiles
    /\ uuids = 0
    /\ ToolsIdle

WritersFrame == UNCHANGED << sessionVars, runVars, scriptLeft, srv, fn >>

\* Lines 75-97: save_briefing of server p up to the write.
WriterSave(p) ==
    /\ writers[p].pc = "idle"
    /\ storeCalls < MaxStoreCalls
    /\ storeCalls' = storeCalls + 1
    /\ \E in \in SaveInputs :
        LET title == in[1]
            content == in[2]
            early == SaveBriefingEarly(db, title, content)
            id == uuids + 1
        IN  /\ uuids' = IF SaveBriefingError(title, content, TRUE) = <<>> THEN id ELSE uuids
            /\ IF early # NoReturn
               THEN /\ last' = Ended("save_briefing", BlankId, early)
                    /\ writers' = writers
               ELSE /\ last' = last
                    /\ writers' = [writers EXCEPT ![p] =
                              [pc |-> "write", op |-> "save_briefing", id |-> id,
                               title |-> title, content |-> content,
                               doc |-> SaveBriefingDoc(db, id, title, content),
                               ret |-> SaveBriefingReturn(id, title, content)]]
    /\ UNCHANGED << db, tmp, live >>
    /\ WritersFrame

\* Lines 201-211: delete_briefing of server p up to the write.
WriterDelete(p) ==
    /\ writers[p].pc = "idle"
    /\ storeCalls < MaxStoreCalls
    /\ storeCalls' = storeCalls + 1
    /\ \E id \in IdInputs :
        LET early == DeleteBriefingEarly(db, id)
        IN  /\ live' = { s \in live : s.id # id }
            /\ IF early # NoReturn
               THEN /\ last' = Ended("delete_briefing", id, early)
                    /\ writers' = writers
               ELSE /\ last' = last
                    /\ writers' = [writers EXCEPT ![p] =
                              [pc |-> "write", op |-> "delete_briefing", id |-> id,
                               title |-> <<>>, content |-> <<>>,
                               doc |-> DeleteBriefingDoc(db, id),
                               ret |-> DeleteBriefingReturn(db, id)]]
    /\ UNCHANGED << db, tmp, uuids >>
    /\ WritersFrame

\* Lines 37-39: server p writes the .tmp file, over what it holds.
WriterWriteText(p) ==
    /\ writers[p].pc = "write"
    /\ db' = WriteTmp(db, tmp, writers[p].doc, TRUE)[1]
    /\ tmp' = WriteTmp(db, tmp, writers[p].doc, TRUE)[2]
    /\ writers' = [writers EXCEPT ![p].pc = "replace"]
    /\ UNCHANGED << uuids, last, live, storeCalls >>
    /\ WritersFrame

\* Line 40 and the return: server p renames the .tmp file, whoever wrote
\* it last, and the tool returns its dict.
WriterReplace(p) ==
    /\ writers[p].pc = "replace"
    /\ tmp # NoFile
    /\ db' = ReplacePath(db, tmp)[1]
    /\ tmp' = ReplacePath(db, tmp)[2]
    /\ last' = Ended(writers[p].op, writers[p].id, writers[p].ret)
    /\ live' = IF writers[p].op = "save_briefing"
               THEN live \cup { [id |-> writers[p].id, title |-> writers[p].title,
                                 content |-> writers[p].content] }
               ELSE live
    /\ writers' = [writers EXCEPT ![p] = SrvIdle]
    /\ UNCHANGED << uuids, storeCalls >>
    /\ WritersFrame

\* Line 40 with the .tmp file gone, renamed by the other server:
\* FileNotFoundError, and the tool returns its error dict (lines 99-102,
\* 213-216).
WriterReplaceMissing(p) ==
    /\ writers[p].pc = "replace"
    /\ tmp = NoFile
    /\ last' = Ended(writers[p].op, writers[p].id, WriteFailedReturn(writers[p].op))
    /\ writers' = [writers EXCEPT ![p] = SrvIdle]
    /\ UNCHANGED << db, tmp, uuids, live, storeCalls >>
    /\ WritersFrame

NextWriters ==
    \/ \E p \in Writers : WriterSave(p)
    \/ \E p \in Writers : WriterDelete(p)
    \/ \E p \in Writers : WriterWriteText(p)
    \/ \E p \in Writers : WriterReplace(p)
    \/ \E p \in Writers : WriterReplaceMissing(p)

SpecWriters == InitWriters /\ [][NextWriters]_vars


\* ------------------------------------------------------ the ranking tool
\* The results a search may hand over: an official page, two blogs that
\* score alike (the second in the long list only), a social page with an
\* article path, an entry with no url.
OfficialResult ==
    [title |-> << "N", "W", "S", " ", "A", "d", "v", "i", "s", "o", "r", "y" >>,
     url |-> << "h", "t", "t", "p", "s", ":", "/", "/", "w", "e", "a", "t", "h", "e",
               "r", ".", "g", "o", "v", "/", "x" >>,
     snippet |-> << "s", "t", "o", "r", "m" >>]
BlogResult ==
    [title |-> << "r", "a", "n", "d", "o", "m", " ", "b", "l", "o", "g" >>,
     url |-> << "h", "t", "t", "p", "s", ":", "/", "/", "e", "x", "a", "m", "p", "l",
               "e", ".", "c", "o", "m", "/", "y" >>,
     snippet |-> << "s", "t", "o", "r", "m" >>]
OtherBlogResult ==
    [title |-> << " ", "O", "t", "h", "e", "r", " ", "B", "l", "o", "g" >>,
     url |-> << "h", "t", "t", "p", "s", ":", "/", "/", "E", "x", "a", "m", "p", "l",
               "e", ".", "o", "r", "g", "/", "z", "?", "q", "=", "1" >>,
     snippet |-> << "S", "T", "O", "R", "M", "!" >>]
SocialResult ==
    [title |-> << "S", "t", "o", "r", "m", " ", "n", "e", "w", "s" >>,
     url |-> << " ", "h", "t", "t", "p", "s", ":", "/", "/", "x", ".", "c", "o", "m",
               "/", "n", "e", "w", "s", "/", "1", " " >>,
     snippet |-> << "a", "d", "v", "i", "s", "o", "r", "y", " ", "s", "t", "o", "r", "m" >>]
NoUrlResult ==
    [title |-> << "n", "o", " ", "u", "r", "l" >>,
     url |-> << " ", " " >>,
     snippet |-> << "s", "t", "o", "r", "m", " ", "a", "d", "v", "i", "s", "o", "r", "y" >>]
ResultPool == { OfficialResult, BlogResult, SocialResult, NoUrlResult }

\* A list longer than the largest top_k.
LongResults ==
    [i \in 1..22 |->
        IF i % 3 = 0 THEN OfficialResult ELSE IF i % 3 = 1 THEN BlogResult ELSE OtherBlogResult]

ResultLists == UNION { [1..n -> ResultPool] : n \in 0..MaxResults } \cup { LongResults }
Goals == { << "s", "t", "o", "r", "m", " ", "a", "d", "v", "i", "s", "o", "r", "y" >>, <<>> }
TopKs == { 0, 1, 2, 21 }

NoRanking == [error |-> <<>>, top_k |-> 0, top_urls |-> <<>>, ranked |-> <<>>, total_scored |-> 0]

\* No client, no run and no storage call.
Offline ==
    /\ mcp_client = 0
    /\ connected = FALSE
    /\ tool_names = <<>>
    /\ chat = <<>>
    /\ clients = <<>>
    /\ RunIdle
    /\ scriptLeft = 0
    /\ uuids = 0
    /\ tmp = NoFile
    /\ srv = SrvIdle
    /\ writers = WritersIdle
    /\ last = NoLast
    /\ live = {}
    /\ storeCalls = 0

\* rank_search_results is called.
InitRank ==
    /\ Offline
    /\ db = NoFile
    /\ \E results \in ResultLists, goal \in Goals, top_k \in TopKs, prefer_official \in BOOLEAN :
          fn = [name |-> "rank_search_results", stage |-> "called", results |-> results,
                goal |-> goal, top_k |-> top_k, prefer_official |-> prefer_official,
                out |-> NoRanking]

\* Lines 84-167: rank_search_results returns.
RankReturns ==
    /\ fn.name = "rank_search_results"
    /\ fn.stage = "called"
    /\ fn' = [fn EXCEPT !.stage = "returned",
                        !.out = RankSearchResults(fn.results, fn.goal, fn.top_k, fn.prefer_official)]
    /\ UNCHANGED << sessionVars, runVars, scriptLeft, db, uuids, tmp, srv, last, live, storeCalls,
                    writers >>

NextRank == RankReturns

SpecRank == InitRank /\ [][NextRank]_vars


\* ------------------------------------------------------ the content tool
\* The lines a scraped page may hold.
SubscribeLine ==
    << "S", "u", "b", "s", "c", "r", "i", "b", "e", " ", "n", "o", "w", "!" >>
SentenceLine ==
    << "T", "h", "i", "s", " ", "i", "s", " ", "a", " ", "r", "e", "a", "l",
       " ", "s", "e", "n", "t", "e", "n", "c", "e", " ", "a", "b", "o",
       "u", "t", " ", "w", "e", "a", "t", "h", "e", "r", " ", "p", "a",
       "t", "t", "e", "r", "n", "s", " ", "t", "o", "d", "a", "y", "." >>
PipesLine ==
    << "R", "a", "i", "n", " ", "|", " ", "w", "i", "n", "d", " ", "|", " ",
       "s", "t", "o", "r", "m", "s", " ", "e", "x", "p", "e", "c", "t",
       "e", "d", " ", " ", "i", "n", " ", "t", "h", "e", " ", "n", "o",
       "r", "t", "h", " ", "t", "o", "d", "a", "y", ".", "\r" >>
MenuLine ==
    << "\t", "H", "O", "M", "E", " ", " ", "N", "E", "W", "S", " ", " ", "W",
       "E", "A", "T", "H", "E", "R", " ", "A", "L", "E", "R", "T", "S",
       " ", " ", "C", "O", "N", "T", "A", "C", "T" >>
NewsletterLine ==
    << "G", "e", "t", " ", "o", "u", "r", " ", "N", "e", "w", "s", "l", "e",
       "t", "t", "e", "r", " ", "f", "o", "r", " ", "d", "a", "i", "l",
       "y", " ", "u", "p", "d", "a", "t", "e", "s", "." >>
LinePool == { SubscribeLine, SentenceLine, PipesLine, MenuLine, NewsletterLine }

\* A text of twelve sentences, longer than the smallest max_chars.
LongLines == [i \in 1..12 |-> SentenceLine]

\* The texts: lines of the pool, and the long text as paragraphs and as
\* one line.
Contents ==
    { Join(NL, lines) : lines \in UNION { [1..n -> LinePool] : n \in 0..MaxLines } }
    \cup { Join(NL, LongLines), Join(<< " " >>, LongLines) }
MaxCharsInputs == { 100, 12000 }

NoExtract == Extracted(<<>>, <<>>, <<>>)

\* extract_main_text is called.
InitExtract ==
    /\ Offline
    /\ db = NoFile
    /\ \E content \in Contents, max_chars \in MaxCharsInputs,
          keep_paragraphs \in BOOLEAN, remove_noise \in BOOLEAN :
          fn = [name |-> "extract_main_text", stage |-> "called", content |-> content,
                max_chars |-> max_chars, keep_paragraphs |-> keep_paragraphs,
                remove_noise |-> remove_noise, first |-> NoExtract, second |-> NoExtract]

ExtractFrame ==
    UNCHANGED << sessionVars, runVars, scriptLeft, db, uuids, tmp, srv, last, live, storeCalls,
                    writers >>

\* Lines 102-156: extract_main_text returns.
ExtractReturns ==
    /\ fn.name = "extract_main_text"
    /\ fn.stage = "called"
    /\ fn' = [fn EXCEPT !.stage = "once",
                        !.first = ExtractMainText(fn.content, fn.max_chars,
                                                  fn.keep_paragraphs, fn.remove_noise)]
    /\ ExtractFrame

\* extract_main_text is called on the clean_text it returned, with the
\* same settings.
ExtractAgain ==
    /\ fn.name = "extract_main_text"
    /\ fn.stage = "once"
    /\ fn.first.error = <<>>
    /\ fn' = [fn EXCEPT !.stage = "twice",
                        !.second = ExtractMainText(fn.first.clean_text, fn.max_chars,
                                                   fn.keep_paragraphs, fn.remove_noise)]
    /\ ExtractFrame

NextExtract ==
    \/ ExtractReturns
    \/ ExtractAgain

SpecExtract == InitExtract /\ [][NextExtract]_vars


\* ------------------------------------------------------- what is claimed
\* The texts of every assistant message of a history, in order.
RECURSIVE AllTexts(_)
AllTexts(ms) ==
    IF ms = <<>> THEN <<>>
    ELSE IF Head(ms).role = "assistant"
         THEN TextsOf(Head(ms).content) \o AllTexts(Tail(ms))
         ELSE AllTexts(Tail(ms))

EndsInStopNotice(s) ==
    /\ s # <<>>
    /\ << s[Len(s)] >> \in { STOP_AFTER_TEXT, STOP_NO_TEXT }

Tripped == RoundLimitExceeded(rounds)

\* C1: a run makes at most MAX_TOOL_ROUNDS (12) model calls. When the loop
\* comes round again after a 12th response that requested tools, the run
\* makes no 13th call: it returns a string that ends in the forced-stop
\* notice.
C1_RoundBound ==
    /\ modelCalls <= MAX_TOOL_ROUNDS
    /\ modelCalls <= rounds
    /\ Tripped => (pc = "returned" /\ modelCalls = MAX_TOOL_ROUNDS /\ EndsInStopNotice(result))
    /\ (pc = "returned" /\ modelCalls = MAX_TOOL_ROUNDS /\ tool_uses # <<>>)
          => (Tripped /\ EndsInStopNotice(result))

C1_Witness ==
    /\ pc = "returned"
    /\ modelCalls = MAX_TOOL_ROUNDS
    /\ tool_uses # <<>>
    /\ EndsInStopNotice(result)

\* The ids of the tool_use blocks of a content, in order.
RequestIds(content) ==
    LET tu == BlocksOfType(content, "tool_use")
    IN  [i \in 1..Len(tu) |-> tu[i].id]

\* The message before `m` requested tools and `m` answers each request once
\* and answers nothing else.
AnswersExactly(request, m) ==
    LET ids == RequestIds(request.content)
    IN  /\ request.role = "assistant"
        /\ m.role = "user"
        /\ \A i \in 1..Len(ids) :
              Cardinality({ j \in 1..Len(m.content) :
                              /\ m.content[j].type = "tool_result"
                              /\ m.content[j].tool_use_id = ids[i] }) = 1
        /\ \A j \in 1..Len(m.content) :
              /\ m.content[j].type = "tool_result"
              /\ \E i \in 1..Len(ids) : m.content[j].tool_use_id = ids[i]

\* C2: the history handed to the model call of round N+1 ends with the
\* assistant message of round N followed by one message that holds exactly
\* one tool_result per tool_use id of that assistant message and none for
\* any other id.
C2_EveryRequestAnsweredOnce ==
    modelCalls >= 2 =>
        LET h == sent.messages
        IN  /\ Len(h) >= 3
            /\ RequestIds(h[Len(h) - 1].content) # <<>>
            /\ AnswersExactly(h[Len(h) - 1], h[Len(h)])

C2_Witness ==
    /\ modelCalls >= 2
    /\ Len(RequestIds(sent.messages[Len(sent.messages) - 1].content)) = 2
    /\ AnswersExactly(sent.messages[Len(sent.messages) - 1],
                      sent.messages[Len(sent.messages)])

\* C3: a call_tool that raises never aborts the query: the run does not end
\* by raising the tool's exception, with tool_use blocks left unanswered.
C3_ToolFailureNeverAborts ==
    ~(pc = "raised" /\ error = "call_tool")

\* C4: briefing_saved is true only after a save_briefing call that returned
\* an id (no raise, no error result).
C4_FlagOnlyAfterSuccess ==
    briefing_saved => okRound # 0

HasDirective(system) ==
    /\ Len(system) >= Len(ALREADY_SAVED)
    /\ SubSeq(system, Len(system) - Len(ALREADY_SAVED) + 1, Len(system)) = ALREADY_SAVED

\* C5: briefing_saved never resets within a run, and the system prompt of a
\* model call holds the "already saved" directive exactly when save_briefing
\* succeeded in an earlier round of the run.
C5_DirectiveExactlyAfterSuccess ==
    [][ /\ (briefing_saved /\ pc' # "idle") => briefing_saved'
        /\ modelCalls' >= 1 =>
              (HasDirective(sent'.system) <=> (okRound' # 0 /\ okRound' < modelCalls')) ]_vars

\* C6: a run that trips the round bound returns, and what it returns is the
\* newline-joined, trimmed texts of every assistant message of the run, in
\* order, followed by the forced-stop notice; it is never empty.
C6_ForcedStopKeepsText ==
    Tripped =>
        /\ pc = "returned"
        /\ result # <<>>
        /\ EndsInStopNotice(result)
        /\ Strip(SubSeq(result, 1, Len(result) - 1)) = Strip(Join(NL, AllTexts(messages)))

C6_Witness ==
    /\ Tripped
    /\ pc = "returned"
    /\ Len(AllTexts(messages)) >= 2
    /\ Strip(Join(NL, AllTexts(messages))) # <<>>

FirstResponseHasNoToolUse ==
    /\ Len(messages) >= 2
    /\ messages[2].role = "assistant"
    /\ RequestIds(messages[2].content) = <<>>

\* C7: when the first response holds no tool_use block the run ends after
\* one model call and no tool call, and returns that response's texts,
\* newline-joined and trimmed.
C7_NoToolsOneRound ==
    FirstResponseHasNoToolUse =>
        /\ pc = "returned"
        /\ rounds = 1
        /\ modelCalls = 1
        /\ toolCalls = 0
        /\ result = Strip(Join(NL, TextsOf(messages[2].content)))

C7_Witness ==
    /\ FirstResponseHasNoToolUse
    /\ pc = "returned"
    /\ Len(TextsOf(messages[2].content)) = 2
    /\ result = <<"a">>

QueryRaises == caller' = "chat" /\ pc # "raised" /\ pc' = "raised"
ErrorAnswered == caller = "chat" /\ pc = "raised" /\ pc' = "idle"

\* C9: a query that raises, and the handler that reports it, leave the
\* session as it was: connected stays true, the client and what it holds
\* are kept, and the chat handler takes the next prompt.
C9_ErrorKeepsSession ==
    [][ (QueryRaises \/ ErrorAnswered) =>
            /\ connected'
            /\ mcp_client' = mcp_client
            /\ mcp_client' # 0
            /\ clients' = clients
            /\ clients'[mcp_client'] = ConnectedClient
            /\ tool_names' = tool_names
            /\ AcceptsPrompt' ]_vars

C9_Witness ==
    /\ Len(chat) = 3
    /\ chat[2] = << "assistant", "error" >>
    /\ pc = "tools"
    /\ connected

\* C10: once Disconnect has run (the session refers to no client) no client
\* constructed by an earlier Connect still holds a transport resource.
C10_DisconnectReleasesAll ==
    mcp_client = 0 =>
        \A c \in 1..Len(clients) : clients[c].exit_stack = <<>>

\* The tool_result ids of a user message's content, in order.
ResultIds(content) == [j \in 1..Len(content) |-> content[j].tool_use_id]

RequestsTools(m) == m.role = "assistant" /\ RequestIds(m.content) # <<>>

\* C18: every assistant message that requests tools is, once its round is
\* through, directly followed by one user message whose tool_result blocks
\* answer the requests in the order of the requests; no second message of
\* results follows it, and no message of results stands anywhere else.
C18_OneResultMessagePerRound ==
    /\ \A i \in 1..Len(messages) :
          (RequestsTools(messages[i]) /\ (i < Len(messages) \/ pc = "loop")) =>
              /\ i < Len(messages)
              /\ messages[i + 1].role = "user"
              /\ \A j \in 1..Len(messages[i + 1].content) :
                    messages[i + 1].content[j].type = "tool_result"
              /\ ResultIds(messages[i + 1].content) = RequestIds(messages[i].content)
              /\ i + 2 <= Len(messages) => messages[i + 2].role # "user"
    /\ \A i \in 2..Len(messages) :
          messages[i].role = "user" => RequestsTools(messages[i - 1])

C18_Witness ==
    /\ pc = "loop"
    /\ Len(messages) >= 4
    /\ messages[Len(messages)] = GuidanceMessage
    /\ RequestsTools(messages[Len(messages) - 2])
    /\ Len(messages[Len(messages) - 1].content) = 2

SystemMessages(ms) == { i \in 1..Len(ms) : ms[i].role = "system" }

\* C19: the history passed to a model call holds no system-role message,
\* and the history kept between calls never holds more than the one
\* guidance message of the round before.
C19_NoControlMessageSent ==
    /\ SystemMessages(sent.messages) = {}
    /\ Cardinality(SystemMessages(messages)) <= 1
    /\ \A i \in SystemMessages(messages) : i = Len(messages)

C19_Witness ==
    /\ modelCalls >= 3
    /\ HasDirective(sent.system)
    /\ Len(sent.messages) >= 5
    /\ SystemMessages(sent.messages) = {}
    /\ pc = "loop"
    /\ messages[Len(messages)] = GuidanceMessage

\* The tool_use blocks of the assistant messages of a history, as call_tool
\* would be called with them, in order.
RECURSIVE RequestsOf(_)
RequestsOf(ms) ==
    IF ms = <<>> THEN <<>>
    ELSE IF Head(ms).role = "assistant"
         THEN LET tu == BlocksOfType(Head(ms).content, "tool_use")
              IN  [i \in 1..Len(tu) |-> CallRecord(tu[i])] \o RequestsOf(Tail(ms))
         ELSE RequestsOf(Tail(ms))

\* The requests of the round at hand on which call_tool has not been
\* called yet.
PendingRequests ==
    IF pc = "tools" THEN Len(tool_uses) - Len(tool_results)
    ELSE IF pc = "raised" /\ error = "call_tool" THEN Len(tool_uses) - Len(tool_results) - 1
    ELSE 0

SaveCalls(cs) == { i \in 1..Len(cs) : cs[i].name = "save_briefing" }

\* C20: call_tool is called once per tool_use block the model returned, in
\* the order of the blocks, save_briefing included whatever briefing_saved
\* is: at a model call, the calls made so far are exactly the requests of
\* the history that is passed, and within a round they are the requests up
\* to the one at hand.
C20_EveryRequestExecutedOnce ==
    /\ pc # "idle" =>
          LET all == RequestsOf(messages)
          IN  called = SubSeq(all, 1, Len(all) - PendingRequests)
    /\ (modelCalls >= 1 /\ pc # "idle") =>
          LET asked == RequestsOf(sent.messages)
          IN  /\ Len(asked) <= Len(called)
              /\ SubSeq(called, 1, Len(asked)) = asked
              /\ Cardinality(SaveCalls(asked)) =
                    Cardinality(SaveCalls(SubSeq(called, 1, Len(asked))))

C20_Witness ==
    /\ pc = "tools"
    /\ modelCalls = 3
    /\ Cardinality(SaveCalls(RequestsOf(sent.messages))) = 2
    /\ Cardinality(SaveCalls(called)) = 2
    /\ HasDirective(sent.system)

\* The run ended at the break of line 161: its last response requested no
\* tool.
EndedWithoutToolRequest ==
    /\ pc = "returned"
    /\ messages # <<>>
    /\ messages[Len(messages)].role = "assistant"
    /\ RequestIds(messages[Len(messages)].content) = <<>>

\* C21: when the loop ends because a round has no tool_use block, the run
\* returns the text blocks of all its rounds, in the order the gateway gave
\* them, joined by newlines and trimmed; no text of an earlier round is lost
\* or out of place.
C21_AllRoundsTextsReturned ==
    EndedWithoutToolRequest =>
        /\ final_text_parts = AllTexts(messages)
        /\ result = Strip(Join(NL, AllTexts(messages)))

\* Texts of two rounds, the blank one between them kept in its place.
C21_Witness ==
    /\ EndedWithoutToolRequest
    /\ rounds = 2
    /\ TextsOf(messages[2].content) = << TextA >>
    /\ TextsOf(messages[4].content) = << TextBlank, TextA >>
    /\ result = TextA \o NL \o TextBlank \o NL \o TextA

\* The roles of a history alternate, the user's first.
Alternates(ms) ==
    \A i \in 1..Len(ms) :
        ms[i].role = (IF i % 2 = 1 THEN "user" ELSE "assistant")

\* C25: at every call of the Model Gateway the history handed over starts
\* with the user's query, alternates user, assistant, user (tool results),
\* assistant and so on, ends in a user message and holds 2*(round-1)+1
\* messages, round being the number of the round that makes the call.
C25_HistoryAlternates ==
    [][ modelCalls' = modelCalls + 1 =>
            /\ sent'.messages # <<>>
            /\ sent'.messages[1] = UserMessage(Prompt)
            /\ Alternates(sent'.messages)
            /\ sent'.messages[Len(sent'.messages)].role = "user"
            /\ Len(sent'.messages) = 2 * (rounds' - 1) + 1 ]_vars

\* The third call of a run that has saved a briefing: five messages, the
\* guidance of the rounds before left out.
C25_Witness ==
    /\ pc = "tools"
    /\ modelCalls = 3
    /\ rounds = 3
    /\ briefing_saved
    /\ Len(sent.messages) = 5
    /\ Alternates(sent.messages)

C23_NoSaveLost ==
    (\A p \in Writers : writers[p].pc = "idle") =>
        \A s \in live : GetBriefing(db, s.id).status = "value"

\* C11: a save_briefing that returned an id can be read back: get_briefing
\* of that id returns a record whose title and content are the saved
\* inputs, trimmed, whatever save_briefing calls and delete_briefing calls
\* on other ids came later.
C11_SavedIsReadBack ==
    \A s \in live :
        LET got == GetBriefing(db, s.id)
        IN  /\ got.status = "value"
            /\ got.record.id = s.id
            /\ got.record.title = Strip(s.title)
            /\ got.record.content = Strip(s.content)

C11_Witness ==
    /\ storeCalls = 3
    /\ last.op = "delete_briefing"
    /\ last.ret.status = "value"
    /\ last.ret.deleted
    /\ \E s \in live :
          /\ s.title # Strip(s.title)
          /\ s.content # Strip(s.content)
          /\ GetBriefing(db, s.id).record.title = Strip(s.title)

\* delete_briefing handed back a dict that does not report a failed write.
DeleteReturned ==
    /\ last.op = "delete_briefing"
    /\ last.ret.status \in {"value", "error"}
    /\ last.ret # WriteFailedReturn("delete_briefing")

\* C12: once delete_briefing(id) has returned, get_briefing(id) returns an
\* error, for a blank id, an id the store never held, an id it held more
\* than once, and a store file of any content.
C12_DeletedIsGone ==
    DeleteReturned => GetBriefing(db, last.id).status = "error"

C12_Witness ==
    /\ DeleteReturned
    /\ last.ret.deleted
    /\ last.id = 8
    /\ db.kind = "document"
    /\ db.briefings # <<>>
    /\ GetBriefing(db, last.id).status = "error"

\* The positions of the records of `before` whose id is not `id`.
Others(before, id) == { i \in 1..Len(before) : before[i].id # id }

\* `after` holds the records of `before` whose id is not `id`, each once, in
\* the order they have in `before`, and nothing else.
IsRestOf(after, before, id) ==
    /\ Len(after) = Cardinality(Others(before, id))
    /\ \A i \in Others(before, id) :
          after[Cardinality({ j \in Others(before, id) : j <= i })] = before[i]

\* The step in which a delete_briefing that wrote the file returns its dict.
DeleteReturns ==
    /\ srv.pc = "replace"
    /\ srv.op = "delete_briefing"
    /\ srv'.pc = "idle"
    /\ last'.ret.status = "value"

\* C24: delete_briefing(id) takes out of the file the records whose id is
\* the argument, all of them, and keeps every other record, in the order
\* they had; deleted is true exactly when the file held a record of that
\* id, and with no such record the file holds the records it held before.
C24_DeleteRemovesExactly ==
    [][ DeleteReturns =>
            LET before == BriefingsOf(SafeReadJson(db))
                after == BriefingsOf(SafeReadJson(db'))
                held == \E i \in 1..Len(before) : before[i].id = srv.id
            IN  /\ last'.id = srv.id
                /\ last'.ret.id = srv.id
                /\ IsRestOf(after, before, srv.id)
                /\ last'.ret.deleted <=> held
                /\ ~held => after = before ]_vars

\* The id held twice, with another record between: both are gone, the
\* other one stays.
C24_Witness ==
    /\ last.op = "delete_briefing"
    /\ last.id = 8
    /\ last.ret.status = "value"
    /\ last.ret.deleted
    /\ db = Document(<< PriorRecord(9, <<"T", "a">>) >>)
    /\ srv.pc = "idle"

\* C13: no step of a store write, a crash at any point included, leaves
\* data/briefings.json with anything but what it held before or the whole
\* document the call was writing.
C13_FileIsOldOrNew ==
    [][ db' # db => (srv.pc = "replace" /\ db' = srv.doc /\ db'.kind = "document") ]_vars

C13_Witness ==
    /\ last.ret = CrashedReturn
    /\ tmp.kind = "document"
    /\ tmp # db
    /\ db.kind = "document"
    /\ db.briefings # <<>>

\* C14: no storage tool raises, whatever data/briefings.json holds.
C14_NoToolRaises ==
    last.ret.status # "raised"

Ranked == fn.name = "rank_search_results" /\ fn.stage = "returned" /\ fn.out.error = <<>>

\* The positions of the results that have a url.
WithUrl == { i \in 1..Len(fn.results) : StripWs(fn.results[i].url) # <<>> }

\* C17: rank_search_results returns its entries in non-increasing order of
\* score, entries of equal score in the order of the input, with ranks 1,
\* 2, ... in that order; the entries are the best top_k of the results
\* that have a url, top_k brought into 1..20, and top_urls are their urls
\* in the same order.
C17_RankedByScoreStable ==
    Ranked =>
        LET ranked == fn.out.ranked
            k == ClampTopK(fn.top_k)
            taken == { ranked[i].original_index : i \in 1..Len(ranked) }
            score(i) == Score(Tokenize(fn.goal), fn.results[i], fn.prefer_official)
        IN  /\ k \in 1..20
            /\ fn.out.top_k = k
            /\ fn.out.total_scored = Cardinality(WithUrl)
            /\ Len(ranked) = IF Cardinality(WithUrl) < k THEN Cardinality(WithUrl) ELSE k
            /\ \A i \in 1..Len(ranked) :
                  /\ ranked[i].rank = i
                  /\ ranked[i].original_index \in WithUrl
                  /\ ranked[i].score = score(ranked[i].original_index)
                  /\ ranked[i].url = StripWs(fn.results[ranked[i].original_index].url)
            /\ \A i, j \in 1..Len(ranked) :
                  i < j =>
                      /\ ranked[i].score >= ranked[j].score
                      /\ ranked[i].score = ranked[j].score
                            => ranked[i].original_index < ranked[j].original_index
            /\ \A c \in WithUrl \ taken : \A i \in 1..Len(ranked) :
                  \/ ranked[i].score > score(c)
                  \/ ranked[i].score = score(c) /\ ranked[i].original_index < c
            /\ fn.out.top_urls = [i \in 1..Len(ranked) |-> ranked[i].url]

C17_Witness ==
    /\ Ranked
    /\ fn.top_k > 20
    /\ fn.out.total_scored > 20
    /\ Len(fn.out.top_urls) = 20
    /\ \E i \in 1..19 :
          /\ fn.out.ranked[i].score = fn.out.ranked[i + 1].score
          /\ fn.out.ranked[i].url # fn.out.ranked[i + 1].url
    /\ fn.out.ranked[1].score > fn.out.ranked[20].score

\* C15: extract_main_text run on the clean_text it returned, with the same
\* settings, returns the same clean_text up to whitespace (runs of
\* whitespace count as one space), also when the first run cut the text and
\* appended the truncation marker.
C15_ExtractIdempotent ==
    (fn.name = "extract_main_text" /\ fn.stage = "twice") =>
        /\ fn.second.error = <<>>
        /\ OneBlock(fn.second.clean_text) = OneBlock(fn.first.clean_text)

\* The example text of two lines.
SubscribeExample == SubscribeLine \o NL \o SentenceLine

\* C16: with remove_noise, extract_main_text of the two lines "Subscribe
\* now!" and "This is a real sentence about weather patterns today."
\* returns the second line and not the first.
C16_SubscribeLineRemoved ==
    ( /\ fn.name = "extract_main_text"
      /\ fn.stage # "called"
      /\ fn.content = SubscribeExample
      /\ fn.remove_noise ) =>
        /\ fn.first.error = <<>>
        /\ Contains(fn.first.clean_text, SentenceLine)
        /\ ~Contains(fn.first.clean_text, SubscribeLine)

====
